---- MODULE Spec2Model ----
(***************************************************************************)
(* A model of the dice roller (src/dice-roller-app/script.js), of its      *)
(* design notes (src/unnamed/part_001) and of the decorator composition    *)
(* example (src/TypescriptSamples/examples/05-decorators.ts with the       *)
(* compiled __decorate helper of src/unnamed/part_000), of the base64      *)
(* checks (src/vector/script.js), of the three fetch functions             *)
(* (src/TypescriptSamples/examples/06-async-compilation.ts) and of the     *)
(* validate and memoize decorators (05-decorators.ts).                     *)
(*                                                                         *)
(* The specifications share the module:                                    *)
(*   Spec         the page: the input field, the dice container and the    *)
(*                two click handlers rollDice and resetDice;               *)
(*   SpecGen      generateDiceNumbers called directly with a number;       *)
(*   SpecDecorate the evaluation of a stack of decorator factories on one  *)
(*                method followed by the loop of __decorate;               *)
(*   SpecBase64   isValidBase64 and isBase64 applied to a string;          *)
(*   SpecFetch    sequentialFetch, parallelFetch, parallelFetchWithSettled *)
(*                and the network settling their requests;                 *)
(*   SpecValidate a call of a method wrapped by @validate;                 *)
(*   SpecMemoize  calls of the @memoize-wrapped fibonacci on two instances.*)
(***************************************************************************)
EXTENDS Integers, Sequences, FiniteSets

VARIABLES
    \* ---- the page (Spec)
    inputValue,     \* document.querySelector('#dice-input').value, a string (sequence of characters)
    containerHTML,  \* document.querySelector('.dice-container').innerHTML, a sequence of blocks
    lastEvent,      \* history: the last event on the page: "none", "input", "roll", "reset"
    lastCmd,        \* history: the last click handler that ran: "none", "roll", "reset"
    lastRoll,       \* history: the value generateDiceNumbers returned to the last rollDice
    rollError,      \* history: the error the last rollDice raised or reported ("none": it has no such statement)
    repeated,       \* history: the last event was a click handler and so was the event before it, the same one
    prevEvent,      \* history: the event before the last one
    \* ---- generateDiceNumbers called directly (SpecGen)
    genCalled,      \* whether generateDiceNumbers has been called
    genN,           \* the number it is called with
    genSamples,     \* the values Math.random() returned during the call (numerators over RandomResolution)
    genResult,      \* the array it returned
    \* ---- decorator composition (SpecDecorate)
    decStack,       \* the decorator factories stacked on the method, top first
    decPc,          \* "factories", "decorate", "done"
    decorators,     \* the array literal passed to __decorate, as built so far
    decI,           \* the loop variable i of __decorate
    decLog,         \* the console output, in order
    \* ---- base64 checks (SpecBase64)
    b64Input,       \* the string passed
    b64Call,        \* the function that was called: "none", "isValidBase64", "isBase64"
    b64Result,      \* what it returned (FALSE before the call)
    \* ---- the fetch functions (SpecFetch)
    fFn,            \* the function called: "none", "sequentialFetch", "parallelFetch", "parallelFetchWithSettled"
    fUrls,          \* its argument urls
    fPc,            \* where the function is: "call", "loop", "await", "done"
    fI,             \* sequentialFetch: the position of the for-of loop in urls (1-based)
    fReq,           \* fReq[i]: the fetch for urls[i] is "unstarted", "pending", "fulfilled", "rejected"
    fStarts,        \* history: the indices of urls in the order their fetches were started
    fSettles,       \* the indices of urls in the order their fetches settled
    fReacted,       \* how many of the settlements the promise reactions have run for
    fResults,       \* results (sequentialFetch), the values of Promise.all, the results of Promise.allSettled
    fOutcome,       \* the promise the function returned: [state: "pending"/"resolved"/"rejected", value]
    \* ---- a method wrapped by @validate (SpecValidate)
    vArgs,          \* the arguments of the call
    vPc,            \* "call" before the call, "done" after it
    vThrown,        \* the message of the error the call threw (<<>>: none)
    vReturn,        \* the value the call returned (JsEmpty: none)
    vOrigCalls,     \* how many times the original method was invoked
    \* ---- the @memoize-wrapped fibonacci (SpecMemoize)
    mCache,         \* the Map cache of the decorated method: key -> value
    mRuns,          \* history: key -> how many times the original method ran for it
    mOwner,         \* history: key -> the instance whose call stored it
    mCalls,         \* how many calls were made from outside
    mLast           \* history: the last call from outside: [inst, key, hit, value]

diceVars == <<inputValue, containerHTML, lastEvent, lastCmd, lastRoll, rollError, repeated, prevEvent>>
genVars == <<genCalled, genN, genSamples, genResult>>
decVars == <<decStack, decPc, decorators, decI, decLog>>
b64Vars == <<b64Input, b64Call, b64Result>>
fetchVars == <<fFn, fUrls, fPc, fI, fReq, fStarts, fSettles, fReacted, fResults, fOutcome>>
valVars == <<vArgs, vPc, vThrown, vReturn, vOrigCalls>>
memoVars == <<mCache, mRuns, mOwner, mCalls, mLast>>
extVars == <<b64Vars, fetchVars, valVars, memoVars>>
vars == <<diceVars, genVars, decVars, extVars>>

----------------------------------------------------------------------------
(* Bounds *)

\* The largest dice count that is typed into the input or passed to generateDiceNumbers.
MaxDice == 2

\* Math.random() is modelled as returning n / RandomResolution for n in 0..RandomResolution-1.
RandomResolution == 12

\* The largest number of decorator factories stacked on one method.
MaxDecorators == 3

\* The longest string over Base64TestChars passed to the base64 checks.
MaxBase64Len == 8

\* The largest number of URLs passed to a fetch function.
MaxUrls == 3

\* The largest number of arguments passed to the validated method.
MaxArgs == 3

\* The largest argument of fibonacci and the largest number of calls made
\* from outside.
MaxFib == 4
MaxCalls == 3

----------------------------------------------------------------------------
(* JavaScript strings and numbers *)

\* The decimal digits, DigitChars[d + 1] being the character of digit d.
DigitChars == <<"0", "1", "2", "3", "4", "5", "6", "7", "8", "9">>

IsDigit(c) == \E d \in 1..10 : DigitChars[d] = c

DigitValue(c) == (CHOOSE d \in 1..10 : DigitChars[d] = c) - 1

AllDigits(s) == \A i \in 1..Len(s) : IsDigit(s[i])

\* The value of a sequence of digits (0 for the empty sequence).
RECURSIVE DigitsValue(_)
DigitsValue(s) ==
    IF s = <<>> THEN 0
    ELSE 10 * DigitsValue(SubSeq(s, 1, Len(s) - 1)) + DigitValue(s[Len(s)])

\* Number.prototype.toString for a non-negative integer.
RECURSIVE NumberToString(_)
NumberToString(n) ==
    IF n < 10 THEN <<DigitChars[n + 1]>>
    ELSE NumberToString(n \div 10) \o <<DigitChars[(n % 10) + 1]>>

\* A JavaScript number, as far as ToLength looks at it: NaN, or a sign, the
\* integer part of the magnitude and whether a non-zero fraction follows.
NaN == [nan |-> TRUE, neg |-> FALSE, int |-> 0, frac |-> FALSE]
Number(neg, int, frac) == [nan |-> FALSE, neg |-> neg, int |-> int, frac |-> frac]

\* An unsigned decimal literal: digits, digits with a fraction, or a fraction alone.
UnsignedToNumber(neg, s) ==
    LET dots == {i \in 1..Len(s) : s[i] = "."} IN
    IF dots = {} THEN
        IF Len(s) >= 1 /\ AllDigits(s) THEN Number(neg, DigitsValue(s), FALSE) ELSE NaN
    ELSE IF Cardinality(dots) # 1 THEN NaN
    ELSE
        LET p == CHOOSE i \in dots : TRUE
            ip == SubSeq(s, 1, p - 1)
            fp == SubSeq(s, p + 1, Len(s))
        IN  IF AllDigits(ip) /\ AllDigits(fp) /\ Len(ip) + Len(fp) >= 1
            THEN Number(neg, DigitsValue(ip), DigitsValue(fp) # 0)
            ELSE NaN

\* ToNumber applied to a string: the empty string is +0, a signed decimal
\* literal is its value, any other text is NaN. (Surrounding white space,
\* exponents, hexadecimal literals and "Infinity" are not among the inputs.)
StringToNumber(s) ==
    IF s = <<>> THEN Number(FALSE, 0, FALSE)
    ELSE IF s[1] = "-" THEN UnsignedToNumber(TRUE, Tail(s))
    ELSE IF s[1] = "+" THEN UnsignedToNumber(FALSE, Tail(s))
    ELSE UnsignedToNumber(FALSE, s)

\* The two kinds of value that reach generateDiceNumbers.
Str(s) == [type |-> "string", value |-> s]
Num(n) == [type |-> "number", value |-> n]

ToNumber(v) ==
    IF v.type = "string" THEN StringToNumber(v.value)
    ELSE Number(v.value < 0, IF v.value < 0 THEN -v.value ELSE v.value, FALSE)

\* Mutant: the sign is dropped instead of clamped, NaN still being 0.
ToLength_Abs(v) ==
    LET x == ToNumber(v) IN
    IF x.nan THEN 0 ELSE x.int

\* ToLength(v): ToIntegerOrInfinity (NaN is 0, truncation toward zero) clamped
\* below at 0. The clamp above at 2^53 - 1 is beyond the counts modelled.
ToLength(v) ==
    LET x == ToNumber(v) IN
    IF x.nan \/ x.neg THEN 0 ELSE x.int

----------------------------------------------------------------------------
(* src/dice-roller-app/script.js *)

\* The values Math.random() returns: u = n / RandomResolution, 0 <= u < 1.
RandomSamples == 0..(RandomResolution - 1)

\* Mutant: the shift is forgotten, Math.floor(Math.random() * 6).
generateDiceNumber_NoShift(u) == (u * 6) \div RandomResolution

\* Mutant: the sample is floored before it is scaled, Math.floor(Math.random()) * 6 + 1.
generateDiceNumber_FloorFirst(u) == ((u \div RandomResolution) * 6) + 1

\* Mutant: the scaled sample is rounded, Math.round(Math.random() * 6) + 1.
generateDiceNumber_Round(u) == ((u * 12 + RandomResolution) \div (2 * RandomResolution)) + 1

\* generateDiceNumber with Math.random() = u / RandomResolution:
\* Math.floor(Math.random() * 6) + 1.
generateDiceNumber(u) == ((u * 6) \div RandomResolution) + 1

\* generateDiceNumbers(numberOfDice), rnd[k] being the value Math.random()
\* returns in the k-th call of the map function:
\* Array.from({ length: numberOfDice }, () => generateDiceNumber()).
generateDiceNumbers(numberOfDice, rnd) ==
    [k \in 1..ToLength(numberOfDice) |-> generateDiceNumber(rnd[k])]

\* The arrays a call generateDiceNumbers(numberOfDice) can return, one for
\* each sequence of values Math.random() can return during the call.
GenerateOutcomes(numberOfDice) ==
    {generateDiceNumbers(numberOfDice, rnd) :
        rnd \in [1..ToLength(numberOfDice) -> RandomSamples]}

\* The design notes' table of the dots of each face: the cells [row, column]
\* of the 3x3 matrix of a die that are set, the rest being 0.
FacePattern ==
    [n \in 1..6 |->
        CASE n = 1 -> {<<1, 1>>}
          [] n = 2 -> {<<0, 2>>, <<2, 0>>}
          [] n = 3 -> {<<0, 2>>, <<2, 0>>, <<1, 1>>}
          [] n = 4 -> {<<0, 0>>, <<0, 2>>, <<2, 0>>, <<2, 2>>}
          [] n = 5 -> {<<0, 0>>, <<0, 2>>, <<2, 0>>, <<2, 2>>, <<1, 1>>}
          [] n = 6 -> {<<0, 0>>, <<1, 0>>, <<2, 0>>, <<0, 2>>, <<1, 2>>, <<2, 2>>}]

\* The template literal `<div class="dice-face">${number}</div>`: one div of
\* class dice-face whose only child is the text of the number; it has no
\* child elements, so no cell of a 3x3 grid is drawn in it.
DiceFace(number) ==
    [class |-> "dice-face", text |-> NumberToString(number), cells |-> {}]

\* Mutant: the blocks are appended to the container, innerHTML += ... .
displayDiceNumbers_Appends(html, diceNumbers) ==
    html \o [i \in 1..Len(diceNumbers) |-> DiceFace(diceNumbers[i])]

\* displayDiceNumbers(diceNumbers) on a container whose innerHTML is html:
\* the new innerHTML, diceNumbers.map(...).join('').
displayDiceNumbers(html, diceNumbers) ==
    [i \in 1..Len(diceNumbers) |-> DiceFace(diceNumbers[i])]

\* What the user can type into the input field.
InputValues ==
    {<<>>, <<"a", "b", "c">>, <<"-">>}
    \cup {NumberToString(n) : n \in 0..MaxDice}
    \cup {<<"-">> \o NumberToString(n) : n \in 1..MaxDice}
    \cup {NumberToString(n) \o <<".", "5">> : n \in 0..MaxDice}

\* The user edits the input field.
SetInput ==
    /\ \E v \in InputValues : inputValue' = v
    /\ lastEvent' = "input"
    /\ repeated' = FALSE
    /\ prevEvent' = lastEvent
    /\ UNCHANGED <<containerHTML, lastCmd, lastRoll, rollError>>
    /\ UNCHANGED <<genVars, decVars, extVars>>

\* Mutant: rollDice clears the input once it has read it.
rollDice_ClearsInput ==
    LET numberOfDice == Str(inputValue) IN
    /\ \E diceNumbers \in GenerateOutcomes(numberOfDice) :
          /\ containerHTML' = displayDiceNumbers(containerHTML, diceNumbers)
          /\ lastRoll' = diceNumbers
    /\ rollError' = "none"
    /\ lastEvent' = "roll"
    /\ lastCmd' = "roll"
    /\ repeated' = (lastEvent = "roll")
    /\ prevEvent' = lastEvent
    /\ inputValue' = <<>>
    /\ UNCHANGED <<genVars, decVars, extVars>>

\* A click on #roll-button: rollDice reads the input's value, generates the
\* numbers and displays them. It has no throw statement, no try and no write
\* to the input.
rollDice ==
    LET numberOfDice == Str(inputValue) IN
    /\ \E diceNumbers \in GenerateOutcomes(numberOfDice) :
          /\ containerHTML' = displayDiceNumbers(containerHTML, diceNumbers)
          /\ lastRoll' = diceNumbers
    /\ rollError' = "none"
    /\ lastEvent' = "roll"
    /\ lastCmd' = "roll"
    /\ repeated' = (lastEvent = "roll")
    /\ prevEvent' = lastEvent
    /\ UNCHANGED inputValue
    /\ UNCHANGED <<genVars, decVars, extVars>>

\* Mutant: resetDice clears the container and leaves the input.
resetDice_KeepsInput ==
    /\ containerHTML' = <<>>
    /\ lastEvent' = "reset"
    /\ lastCmd' = "reset"
    /\ repeated' = (lastEvent = "reset")
    /\ prevEvent' = lastEvent
    /\ UNCHANGED <<inputValue, lastRoll, rollError>>
    /\ UNCHANGED <<genVars, decVars, extVars>>

\* Mutant: resetDice clears the input and leaves the container.
resetDice_KeepsDisplay ==
    /\ inputValue' = <<>>
    /\ lastEvent' = "reset"
    /\ lastCmd' = "reset"
    /\ repeated' = (lastEvent = "reset")
    /\ prevEvent' = lastEvent
    /\ UNCHANGED <<containerHTML, lastRoll, rollError>>
    /\ UNCHANGED <<genVars, decVars, extVars>>

\* A click on #reset-button.
resetDice ==
    /\ containerHTML' = <<>>
    /\ inputValue' = <<>>
    /\ lastEvent' = "reset"
    /\ lastCmd' = "reset"
    /\ repeated' = (lastEvent = "reset")
    /\ prevEvent' = lastEvent
    /\ UNCHANGED <<lastRoll, rollError>>
    /\ UNCHANGED <<genVars, decVars, extVars>>

\* The page after the script has run: nothing typed, nothing displayed.
DiceInit ==
    /\ inputValue = <<>>
    /\ containerHTML = <<>>
    /\ lastEvent = "none"
    /\ lastCmd = "none"
    /\ lastRoll = <<>>
    /\ rollError = "none"
    /\ repeated = FALSE
    /\ prevEvent = "none"

----------------------------------------------------------------------------
(* generateDiceNumbers called directly *)

\* No call is made.
GenIdle ==
    /\ genCalled = FALSE
    /\ genN = 0
    /\ genSamples = <<>>
    /\ genResult = <<>>

\* A call generateDiceNumbers(genN) is about to be made.
GenInit ==
    /\ genCalled = FALSE
    /\ genN \in 0..MaxDice
    /\ genSamples = <<>>
    /\ genResult = <<>>

\* The call generateDiceNumbers(genN), Math.random() returning rnd[k] / RandomResolution
\* in the k-th call of the map function.
Generate ==
    /\ ~genCalled
    /\ \E rnd \in [1..genN -> RandomSamples] :
          /\ genSamples' = rnd
          /\ genResult' = generateDiceNumbers(Num(genN), rnd)
    /\ genCalled' = TRUE
    /\ UNCHANGED genN
    /\ UNCHANGED <<diceVars, decVars, extVars>>

----------------------------------------------------------------------------
(* src/TypescriptSamples/examples/05-decorators.ts, section 7, and __decorate *)

\* The decorator factories of the example.
FactoryNames == {"first", "second"}

\* The stacks of factories written on a method, top first.
RECURSIVE StacksOfLen(_)
StacksOfLen(n) ==
    IF n = 0 THEN {<<>>}
    ELSE {Append(s, f) : s \in StacksOfLen(n - 1), f \in FactoryNames}

DecoratorStacks == UNION {StacksOfLen(n) : n \in 0..MaxDecorators}

\* console.log("<name>(): factory evaluated") and console.log("<name>(): decorator called").
FactoryEvaluated(name) == <<name, "factory evaluated">>
DecoratorCalled(name) == <<name, "decorator called">>

\* decorators[i] for an index outside the array.
Undefined == "undefined"

\* The factory whose call is the next element of the array literal
\* [first(), second()]: the elements are evaluated left to right, which is the
\* order the decorators are written in, top first.
NextFactory(stack, built) == stack[Len(built) + 1]

\* Mutant: the loop starts at the first index, for (var i = 0; i >= 0; i--).
DecorateLoopStart_FromFirst(ds) == 0

\* for (var i = decorators.length - 1; ...): the first index (0-based).
DecorateLoopStart(ds) == Len(ds) - 1

\* for (...; i >= 0; ...)
DecorateLoopCond(i) == i >= 0

\* for (...; ...; i--)
DecorateLoopStep(i) == i - 1

\* No class is being defined.
DecIdle ==
    /\ decStack = <<>>
    /\ decPc = "done"
    /\ decorators = <<>>
    /\ decI = 0
    /\ decLog = <<>>

\* The class definition is about to be evaluated.
DecInit ==
    /\ decStack \in DecoratorStacks
    /\ decPc = "factories"
    /\ decorators = <<>>
    /\ decI = 0
    /\ decLog = <<>>

\* One element of the array literal is evaluated: the factory logs and
\* returns its decorator.
EvaluateFactory ==
    /\ decPc = "factories"
    /\ Len(decorators) < Len(decStack)
    /\ LET f == NextFactory(decStack, decorators) IN
          /\ decLog' = Append(decLog, FactoryEvaluated(f))
          /\ decorators' = Append(decorators, f)
    /\ UNCHANGED <<decStack, decPc, decI>>
    /\ UNCHANGED <<diceVars, genVars, extVars>>

\* __decorate is called with the finished array; the loop variable is set.
CallDecorate ==
    /\ decPc = "factories"
    /\ Len(decorators) = Len(decStack)
    /\ decPc' = "decorate"
    /\ decI' = DecorateLoopStart(decorators)
    /\ UNCHANGED <<decStack, decorators, decLog>>
    /\ UNCHANGED <<diceVars, genVars, extVars>>

\* One iteration of the loop: if (d = decorators[i]) calls d when the element
\* is there; the decorator logs and returns undefined, which leaves r as it is.
DecorateStep ==
    /\ decPc = "decorate"
    /\ DecorateLoopCond(decI)
    /\ LET d == IF decI + 1 \in DOMAIN decorators THEN decorators[decI + 1] ELSE Undefined IN
          decLog' = IF d # Undefined THEN Append(decLog, DecoratorCalled(d)) ELSE decLog
    /\ decI' = DecorateLoopStep(decI)
    /\ UNCHANGED <<decStack, decPc, decorators>>
    /\ UNCHANGED <<diceVars, genVars, extVars>>

\* The loop ends and __decorate returns.
DecorateReturn ==
    /\ decPc = "decorate"
    /\ ~DecorateLoopCond(decI)
    /\ decPc' = "done"
    /\ UNCHANGED <<decStack, decorators, decI, decLog>>
    /\ UNCHANGED <<diceVars, genVars, extVars>>

----------------------------------------------------------------------------
(* Regular expressions, as RegExp.prototype.test evaluates them *)

\* The nodes of a pattern.
Class(set) == [op |-> "class", set |-> set]
Lit(c) == [op |-> "class", set |-> {c}]
Cat(parts) == [op |-> "cat", parts |-> parts]
Alt(parts) == [op |-> "alt", parts |-> parts]
Star(sub) == [op |-> "star", sub |-> sub]
Opt(sub) == [op |-> "opt", sub |-> sub]
Repeat(sub, n) == [op |-> "repeat", sub |-> sub, n |-> n]
Bol == [op |-> "bol"]
Eol == [op |-> "eol"]

\* The positions (numbers of characters of s consumed) at which a match of
\* the pattern re can end when it starts at one of the positions of starts.
RECURSIVE MatchEnds(_, _, _)
RECURSIVE MatchCat(_, _, _, _)
RECURSIVE MatchStar(_, _, _, _)
RECURSIVE MatchRepeat(_, _, _, _)
MatchEnds(re, s, starts) ==
    CASE re.op = "class" -> {p + 1 : p \in {q \in starts : q < Len(s) /\ s[q + 1] \in re.set}}
      [] re.op = "bol" -> {p \in starts : p = 0}
      [] re.op = "eol" -> {p \in starts : p = Len(s)}
      [] re.op = "cat" -> MatchCat(re.parts, 1, s, starts)
      [] re.op = "alt" -> UNION {MatchEnds(re.parts[i], s, starts) : i \in 1..Len(re.parts)}
      [] re.op = "opt" -> starts \cup MatchEnds(re.sub, s, starts)
      [] re.op = "star" -> MatchStar(re.sub, s, starts, starts)
      [] re.op = "repeat" -> MatchRepeat(re.sub, re.n, s, starts)

MatchCat(parts, k, s, starts) ==
    IF k > Len(parts) \/ starts = {} THEN starts
    ELSE MatchCat(parts, k + 1, s, MatchEnds(parts[k], s, starts))

MatchStar(sub, s, reached, frontier) ==
    LET new == MatchEnds(sub, s, frontier) \ reached IN
    IF new = {} THEN reached
    ELSE MatchStar(sub, s, reached \cup new, new)

MatchRepeat(sub, n, s, starts) ==
    IF n = 0 \/ starts = {} THEN starts
    ELSE MatchRepeat(sub, n - 1, s, MatchEnds(sub, s, starts))

\* regex.test(s): whether the pattern matches starting at some position of s.
RegexTest(re, s) == \E start \in 0..Len(s) : MatchEnds(re, s, {start}) # {}

----------------------------------------------------------------------------
(* src/vector/script.js *)

UpperChars == {"A", "B", "C", "D", "E", "F", "G", "H", "I", "J", "K", "L", "M",
               "N", "O", "P", "Q", "R", "S", "T", "U", "V", "W", "X", "Y", "Z"}
LowerChars == {"a", "b", "c", "d", "e", "f", "g", "h", "i", "j", "k", "l", "m",
               "n", "o", "p", "q", "r", "s", "t", "u", "v", "w", "x", "y", "z"}
DigitCharSet == {DigitChars[d] : d \in 1..10}

\* The character class [A-Za-z0-9+\/] (written [A-Za-z0-9+/] in isBase64).
Base64Class == Class(UpperChars \cup LowerChars \cup DigitCharSet \cup {"+", "/"})

\* Mutant: the pattern of isValidBase64 without its $.
isValidBase64Regex_NoEnd ==
    Cat(<<Bol,
          Star(Repeat(Base64Class, 4)),
          Opt(Alt(<<Cat(<<Repeat(Base64Class, 2), Lit("="), Lit("=")>>),
                    Cat(<<Repeat(Base64Class, 3), Lit("=")>>)>>))>>)

\* /^(?:[A-Za-z0-9+\/]{4})*(?:[A-Za-z0-9+\/]{2}==|[A-Za-z0-9+\/]{3}=)?$/
isValidBase64Regex ==
    Cat(<<Bol,
          Star(Repeat(Base64Class, 4)),
          Opt(Alt(<<Cat(<<Repeat(Base64Class, 2), Lit("="), Lit("=")>>),
                    Cat(<<Repeat(Base64Class, 3), Lit("=")>>)>>)),
          Eol>>)

isValidBase64(base64String) == RegexTest(isValidBase64Regex, base64String)

\* /^(?:[A-Za-z0-9+/]{4})*(?:[A-Za-z0-9+/]{2}==|[A-Za-z0-9+/]{3}=|[A-Za-z0-9+/]{4})$/
isBase64Regex ==
    Cat(<<Bol,
          Star(Repeat(Base64Class, 4)),
          Alt(<<Cat(<<Repeat(Base64Class, 2), Lit("="), Lit("=")>>),
                Cat(<<Repeat(Base64Class, 3), Lit("=")>>),
                Repeat(Base64Class, 4)>>),
          Eol>>)

isBase64(value) == RegexTest(isBase64Regex, value)

\* The strings the script passes to the checks.
Sample8 == <<"S", "G", "V", "s", "b", "G", "8", "g", "V", "2", "9", "y", "b", "G", "Q", "=">>
Sample9 == <<"K", "n", "o", "j", "P", "P", "9", "h", "J", "z", "x", "/", "R", "d", "u", "8", "7", "s">>
Result1Input == <<"M", "I", "Q", "K", "u", "h", "f", "t", "k", "D", "w", "x", "f", "Z", "U", "7", "p", "v", "e", "/", "O", "o", "a", "X", "S", "7", "w", "O", "4", "R", ".", ".", ".">>
Result3Input == <<"M", "I", "Q", "K", "u", "h", "f", "t", "k", "D", "w", "x", "f", "Z", "U", "7", "p", "v", "e", "/", "O", "o", "a", "X", "S", "7", "w", "O", "4", "R", "=", "=">>

SampleInputs == {Sample8, Sample9, Result1Input, Result3Input}

\* The characters of the long generated strings: one of the class, the
\* padding character and one outside the class.
Base64TestChars == {"A", "=", "."}

\* The characters of the short generated strings: one of each range of the
\* class, its two signs, the padding character and two outside the class.
Base64GroupChars == {"A", "z", "0", "+", "/", "=", ".", "-"}

\* The length of a group, {4} in the patterns.
Base64GroupLen == 4

RECURSIVE StringsOfLen(_, _)
StringsOfLen(n, alphabet) ==
    IF n = 0 THEN {<<>>}
    ELSE {Append(s, c) : s \in StringsOfLen(n - 1, alphabet), c \in alphabet}

\* The strings passed to the checks: the script's own, every string of up to
\* MaxBase64Len test characters and every string of up to one group of group
\* characters.
Base64Inputs ==
    SampleInputs
    \cup UNION {StringsOfLen(n, Base64TestChars) : n \in 0..MaxBase64Len}
    \cup UNION {StringsOfLen(n, Base64GroupChars) : n \in 0..Base64GroupLen}

\* No check is called.
B64Idle ==
    /\ b64Input = <<>>
    /\ b64Call = "none"
    /\ b64Result = FALSE

\* A check is about to be called with a string.
B64Init ==
    /\ b64Input \in Base64Inputs
    /\ b64Call = "none"
    /\ b64Result = FALSE

CallIsValidBase64 ==
    /\ b64Call = "none"
    /\ b64Call' = "isValidBase64"
    /\ b64Result' = isValidBase64(b64Input)
    /\ UNCHANGED b64Input
    /\ UNCHANGED <<diceVars, genVars, decVars, fetchVars, valVars, memoVars>>

CallIsBase64 ==
    /\ b64Call = "none"
    /\ b64Call' = "isBase64"
    /\ b64Result' = isBase64(b64Input)
    /\ UNCHANGED b64Input
    /\ UNCHANGED <<diceVars, genVars, decVars, fetchVars, valVars, memoVars>>

----------------------------------------------------------------------------
(* src/TypescriptSamples/examples/06-async-compilation.ts, section 6 *)

FetchFunctions == {"sequentialFetch", "parallelFetch", "parallelFetchWithSettled"}

Urls == {"/a", "/b"}

RECURSIVE UrlListsOfLen(_)
UrlListsOfLen(n) ==
    IF n = 0 THEN {<<>>}
    ELSE {Append(l, u) : l \in UrlListsOfLen(n - 1), u \in Urls}

UrlLists == UNION {UrlListsOfLen(n) : n \in 0..MaxUrls}

\* The values that flow through the promises.
Response(url) == [kind |-> "Response", url |-> url]
FetchError(url) == [kind |-> "TypeError", url |-> url]
JsNull == [kind |-> "null"]
JsEmpty == [kind |-> "empty"]

Pending == [state |-> "pending", value |-> <<>>]
Resolved(v) == [state |-> "resolved", value |-> v]
Rejected(reason) == [state |-> "rejected", value |-> <<reason>>]

\* Mutant: results.unshift(response).
ArrayPush_Unshift(results, response) == <<response>> \o results

\* results.push(response)
ArrayPush(results, response) == Append(results, response)

\* Mutant: Promise.all collects the values in the order they arrive.
PromiseAllStore_InArrivalOrder(values, index, value) ==
    LET free == CHOOSE k \in 1..Len(values) :
                    /\ values[k] = JsEmpty
                    /\ \A j \in 1..(k - 1) : values[j] # JsEmpty
    IN  [values EXCEPT ![free] = value]

\* Promise.all's resolve element function: values[index] = value.
PromiseAllStore(values, index, value) == [values EXCEPT ![index] = value]

\* The result object Promise.allSettled makes of a settled promise.
SettledResult(status, url) ==
    IF status = "fulfilled"
    THEN [status |-> "fulfilled", value |-> Response(url)]
    ELSE [status |-> "rejected", reason |-> FetchError(url)]

\* Mutant: the two tests of the status are exchanged.
SettledEntry_Swapped(url, result) ==
    [url |-> url,
     status |-> result.status,
     value |-> IF result.status = "rejected" THEN FetchError(url) ELSE JsNull,
     reason |-> IF result.status = "fulfilled" THEN Response(url) ELSE JsNull]

\* The object the map callback of parallelFetchWithSettled returns.
SettledEntry(url, result) ==
    [url |-> url,
     status |-> result.status,
     value |-> IF result.status = "fulfilled" THEN result.value ELSE JsNull,
     reason |-> IF result.status = "rejected" THEN result.reason ELSE JsNull]

\* No fetch function is called.
FetchIdle ==
    /\ fFn = "none"
    /\ fUrls = <<>>
    /\ fPc = "done"
    /\ fI = 1
    /\ fReq = <<>>
    /\ fStarts = <<>>
    /\ fSettles = <<>>
    /\ fReacted = 0
    /\ fResults = <<>>
    /\ fOutcome = Pending

\* A fetch function is about to be called with a list of URLs.
FetchInit ==
    /\ fFn \in FetchFunctions
    /\ fUrls \in UrlLists
    /\ fPc = "call"
    /\ fI = 1
    /\ fReq = [i \in 1..Len(fUrls) |-> "unstarted"]
    /\ fStarts = <<>>
    /\ fSettles = <<>>
    /\ fReacted = 0
    /\ fResults = <<>>
    /\ fOutcome = Pending

fetchFrame == UNCHANGED <<diceVars, genVars, decVars, b64Vars, valVars, memoVars>>

\* The network settles a pending fetch, with a response or with an error.
FetchSettle ==
    /\ \E i \in 1..Len(fUrls) : \E status \in {"fulfilled", "rejected"} :
          /\ fReq[i] = "pending"
          /\ fReq' = [fReq EXCEPT ![i] = status]
          /\ fSettles' = Append(fSettles, i)
    /\ UNCHANGED <<fFn, fUrls, fPc, fI, fStarts, fReacted, fResults, fOutcome>>
    /\ fetchFrame

\* sequentialFetch is called: const results = [].
SeqCall ==
    /\ fFn = "sequentialFetch"
    /\ fPc = "call"
    /\ fResults' = <<>>
    /\ fPc' = "loop"
    /\ UNCHANGED <<fFn, fUrls, fI, fReq, fStarts, fSettles, fReacted, fOutcome>>
    /\ fetchFrame

\* The loop takes the next url: fetch(url) is started and awaited.
SeqFetch ==
    /\ fFn = "sequentialFetch"
    /\ fPc = "loop"
    /\ fI <= Len(fUrls)
    /\ fReq' = [fReq EXCEPT ![fI] = "pending"]
    /\ fStarts' = Append(fStarts, fI)
    /\ fPc' = "await"
    /\ UNCHANGED <<fFn, fUrls, fI, fSettles, fReacted, fResults, fOutcome>>
    /\ fetchFrame

\* The awaited fetch has settled: a response is pushed and the loop goes on;
\* an error is thrown out of the function, which rejects its promise.
SeqResume ==
    /\ fFn = "sequentialFetch"
    /\ fPc = "await"
    /\ fReacted < Len(fSettles)
    /\ fSettles[fReacted + 1] = fI
    /\ fReacted' = fReacted + 1
    /\ IF fReq[fI] = "fulfilled"
       THEN /\ fResults' = ArrayPush(fResults, Response(fUrls[fI]))
            /\ fI' = fI + 1
            /\ fPc' = "loop"
            /\ UNCHANGED fOutcome
       ELSE /\ fOutcome' = Rejected(FetchError(fUrls[fI]))
            /\ fPc' = "done"
            /\ UNCHANGED <<fResults, fI>>
    /\ UNCHANGED <<fFn, fUrls, fReq, fStarts, fSettles>>
    /\ fetchFrame

\* The loop is over: return results.
SeqReturn ==
    /\ fFn = "sequentialFetch"
    /\ fPc = "loop"
    /\ fI > Len(fUrls)
    /\ fOutcome' = Resolved(fResults)
    /\ fPc' = "done"
    /\ UNCHANGED <<fFn, fUrls, fI, fReq, fStarts, fSettles, fReacted, fResults>>
    /\ fetchFrame

\* parallelFetch or parallelFetchWithSettled is called: urls.map(url => fetch(url))
\* starts every fetch, in the order of urls, and the combinator is given the
\* promises; for an empty list Promise.all resolves at once with [].
ParCall ==
    /\ fFn \in {"parallelFetch", "parallelFetchWithSettled"}
    /\ fPc = "call"
    /\ fReq' = [i \in 1..Len(fUrls) |-> "pending"]
    /\ fStarts' = [i \in 1..Len(fUrls) |-> i]
    /\ fResults' = [i \in 1..Len(fUrls) |-> JsEmpty]
    /\ IF fFn = "parallelFetch" /\ fUrls = <<>>
       THEN fOutcome' = Resolved(<<>>) /\ fPc' = "done"
       ELSE fOutcome' = fOutcome /\ fPc' = "await"
    /\ UNCHANGED <<fFn, fUrls, fI, fSettles, fReacted>>
    /\ fetchFrame

\* Promise.all reacts to the next settlement: a value is stored at the index
\* of its promise and the last one resolves the promise with the values; an
\* error rejects the promise if it is still pending.
AllReact ==
    /\ fFn = "parallelFetch"
    /\ fPc \in {"await", "done"}
    /\ fReacted < Len(fSettles)
    /\ fReacted' = fReacted + 1
    /\ LET i == fSettles[fReacted + 1] IN
       IF fReq[i] = "fulfilled"
       THEN LET values == PromiseAllStore(fResults, i, Response(fUrls[i])) IN
            /\ fResults' = values
            /\ IF fOutcome.state = "pending" /\ \A k \in 1..Len(values) : values[k] # JsEmpty
               THEN fOutcome' = Resolved(values) /\ fPc' = "done"
               ELSE UNCHANGED <<fOutcome, fPc>>
       ELSE /\ IF fOutcome.state = "pending"
               THEN fOutcome' = Rejected(FetchError(fUrls[i])) /\ fPc' = "done"
               ELSE UNCHANGED <<fOutcome, fPc>>
            /\ UNCHANGED fResults
    /\ UNCHANGED <<fFn, fUrls, fI, fReq, fStarts, fSettles>>
    /\ fetchFrame

\* Promise.allSettled reacts to the next settlement: its result object is
\* stored at the index of its promise.
SettledReact ==
    /\ fFn = "parallelFetchWithSettled"
    /\ fPc = "await"
    /\ fReacted < Len(fSettles)
    /\ fReacted' = fReacted + 1
    /\ LET i == fSettles[fReacted + 1] IN
          fResults' = [fResults EXCEPT ![i] = SettledResult(fReq[i], fUrls[i])]
    /\ UNCHANGED <<fFn, fUrls, fPc, fI, fReq, fStarts, fSettles, fOutcome>>
    /\ fetchFrame

\* Every promise has settled: the await ends and results.map(...) is returned.
SettledReturn ==
    /\ fFn = "parallelFetchWithSettled"
    /\ fPc = "await"
    /\ \A k \in 1..Len(fResults) : fResults[k] # JsEmpty
    /\ fOutcome' = Resolved([index \in 1..Len(fResults) |->
                                SettledEntry(fUrls[index], fResults[index])])
    /\ fPc' = "done"
    /\ UNCHANGED <<fFn, fUrls, fI, fReq, fStarts, fSettles, fReacted, fResults>>
    /\ fetchFrame

----------------------------------------------------------------------------
(* src/TypescriptSamples/examples/05-decorators.ts, section 8: validate *)

JsUndefined == [kind |-> "undefined"]
JsNumber(n) == [kind |-> "number", n |-> n]
JsString(str) == [kind |-> "string", str |-> str]

\* The values passed as arguments: null, undefined, the falsy 0 and "", and
\* a name.
ArgValues == {JsNull, JsUndefined, JsNumber(0), JsString(""), JsString("alice")}

RECURSIVE ArgListsOfLen(_)
ArgListsOfLen(n) ==
    IF n = 0 THEN {<<>>}
    ELSE {Append(l, v) : l \in ArgListsOfLen(n - 1), v \in ArgValues}

ArgLists == UNION {ArgListsOfLen(n) : n \in 0..MaxArgs}

\* Mutant: the test is !args[i].
IsNullOrUndefined_Falsy(v) ==
    v \in {JsNull, JsUndefined, JsNumber(0), JsString("")}

\* args[i] === null || args[i] === undefined
IsNullOrUndefined(v) == v = JsNull \/ v = JsUndefined

\* The for loop of the wrapper from index i (0-based): the index at which it
\* throws, or -1 when it ends.
RECURSIVE ValidateLoop(_, _)
ValidateLoop(args, i) ==
    IF ~(i < Len(args)) THEN -1
    ELSE IF IsNullOrUndefined(args[i + 1]) THEN i
    ELSE ValidateLoop(args, i + 1)

\* `Argument ${i} cannot be null or undefined`
ValidateMessage(i) == <<"Argument ">> \o NumberToString(i) \o <<" cannot be null or undefined">>

\* A parameter of a call: the argument at that position, undefined beyond them.
Param(args, k) == IF k <= Len(args) THEN args[k] ELSE JsUndefined

\* The original method, createUser(name, email): return { name, email }.
createUser(args) == [kind |-> "object", name |-> Param(args, 1), email |-> Param(args, 2)]

\* No validated method is called.
ValIdle ==
    /\ vArgs = <<>>
    /\ vPc = "done"
    /\ vThrown = <<>>
    /\ vReturn = JsEmpty
    /\ vOrigCalls = 0

\* userService.createUser is about to be called with a list of arguments.
ValInit ==
    /\ vArgs \in ArgLists
    /\ vPc = "call"
    /\ vThrown = <<>>
    /\ vReturn = JsEmpty
    /\ vOrigCalls = 0

\* The call of the wrapper: the loop throws at the first null or undefined
\* argument, otherwise the original method is applied and its result returned.
CallValidated ==
    /\ vPc = "call"
    /\ vPc' = "done"
    /\ LET bad == ValidateLoop(vArgs, 0) IN
       IF bad >= 0
       THEN /\ vThrown' = ValidateMessage(bad)
            /\ UNCHANGED <<vReturn, vOrigCalls>>
       ELSE /\ vOrigCalls' = vOrigCalls + 1
            /\ vReturn' = createUser(vArgs)
            /\ UNCHANGED vThrown
    /\ UNCHANGED vArgs
    /\ UNCHANGED <<diceVars, genVars, decVars, b64Vars, fetchVars, memoVars>>

----------------------------------------------------------------------------
(* src/TypescriptSamples/examples/05-decorators.ts, section 9: memoize *)

\* The instances of MathOperations.
Instances == {"m1", "m2"}

\* JSON.stringify(args) for args = [n], n a non-negative integer.
JsonStringifyArgs(n) == <<"[">> \o NumberToString(n) \o <<"]">>

\* Mutant: the test is cache.get(key), which a stored 0 fails.
CacheHas_Truthy(cache, key) == key \in DOMAIN cache /\ cache[key] # 0

\* cache.has(key)
CacheHas(cache, key) == key \in DOMAIN cache

\* map with map.set(key, value) done.
MapSet(map, key, value) ==
    [k \in DOMAIN map \cup {key} |-> IF k = key THEN value ELSE map[k]]

\* map.get(key), 0 for a key that is not there (the run counts).
CountOf(map, key) == IF key \in DOMAIN map THEN map[key] ELSE 0

\* The wrapper, descriptor.value, called on the instance this with n, and the
\* original method fibonacci, which calls the wrapper through this.fibonacci.
\* st holds the cache and the histories; the result is the new st, the value
\* returned and whether the cache was hit.
RECURSIVE MemoizedCall(_, _, _)
RECURSIVE fibonacci(_, _, _)
MemoizedCall(st, this, n) ==
    LET key == JsonStringifyArgs(n) IN
    IF CacheHas(st.cache, key)
    THEN [st |-> st, value |-> st.cache[key], hit |-> TRUE]
    ELSE LET started == [st EXCEPT !.runs = MapSet(st.runs, key, CountOf(st.runs, key) + 1)]
             result == fibonacci(started, this, n)
         IN  [st |-> [cache |-> MapSet(result.st.cache, key, result.value),
                      runs |-> result.st.runs,
                      owner |-> MapSet(result.st.owner, key, this)],
              value |-> result.value,
              hit |-> FALSE]

fibonacci(st, this, n) ==
    IF n <= 1 THEN [st |-> st, value |-> n]
    ELSE LET a == MemoizedCall(st, this, n - 1)
             b == MemoizedCall(a.st, this, n - 2)
         IN  [st |-> b.st, value |-> a.value + b.value]

NoCall == [inst |-> "none", key |-> <<>>, hit |-> FALSE, value |-> 0]

\* The class is defined (memoize has run once and made the cache), no call
\* is made.
MemoInit ==
    /\ mCache = <<>>
    /\ mRuns = <<>>
    /\ mOwner = <<>>
    /\ mCalls = 0
    /\ mLast = NoCall

\* instance.fibonacci(n) is called from outside.
CallFibonacci ==
    /\ mCalls < MaxCalls
    /\ \E inst \in Instances : \E n \in 0..MaxFib :
          LET r == MemoizedCall([cache |-> mCache, runs |-> mRuns, owner |-> mOwner], inst, n) IN
          /\ mCache' = r.st.cache
          /\ mRuns' = r.st.runs
          /\ mOwner' = r.st.owner
          /\ mLast' = [inst |-> inst, key |-> JsonStringifyArgs(n), hit |-> r.hit, value |-> r.value]
    /\ mCalls' = mCalls + 1
    /\ UNCHANGED <<diceVars, genVars, decVars, b64Vars, fetchVars, valVars>>

\* The subsystems added to the module are not running.
ExtIdle == B64Idle /\ FetchIdle /\ ValIdle /\ MemoInit

----------------------------------------------------------------------------
(* Specifications *)

Init == DiceInit /\ GenIdle /\ DecIdle /\ ExtIdle

Next == SetInput \/ rollDice \/ resetDice

Spec == Init /\ [][Next]_vars

InitGen == DiceInit /\ GenInit /\ DecIdle /\ ExtIdle

NextGen == Generate

SpecGen == InitGen /\ [][NextGen]_vars

InitDecorate == DiceInit /\ GenIdle /\ DecInit /\ ExtIdle

NextDecorate == EvaluateFactory \/ CallDecorate \/ DecorateStep \/ DecorateReturn

SpecDecorate == InitDecorate /\ [][NextDecorate]_vars

InitBase64 == DiceInit /\ GenIdle /\ DecIdle /\ B64Init /\ FetchIdle /\ ValIdle /\ MemoInit

NextBase64 == CallIsValidBase64 \/ CallIsBase64

SpecBase64 == InitBase64 /\ [][NextBase64]_vars

InitFetch == DiceInit /\ GenIdle /\ DecIdle /\ B64Idle /\ FetchInit /\ ValIdle /\ MemoInit

NextFetch ==
    \/ FetchSettle
    \/ SeqCall \/ SeqFetch \/ SeqResume \/ SeqReturn
    \/ ParCall \/ AllReact
    \/ SettledReact \/ SettledReturn

SpecFetch == InitFetch /\ [][NextFetch]_vars

InitValidate == DiceInit /\ GenIdle /\ DecIdle /\ B64Idle /\ FetchIdle /\ ValInit /\ MemoInit

NextValidate == CallValidated

SpecValidate == InitValidate /\ [][NextValidate]_vars

InitMemoize == DiceInit /\ GenIdle /\ DecIdle /\ B64Idle /\ FetchIdle /\ ValIdle /\ MemoInit

NextMemoize == CallFibonacci

SpecMemoize == InitMemoize /\ [][NextMemoize]_vars

----------------------------------------------------------------------------
(* Properties of generateDiceNumbers (SpecGen) *)

\* C1: for every non-negative integer N, generateDiceNumbers(N) returns a
\* sequence of exactly N elements, each an integer in 1..6.
C1_LengthAndRange ==
    genCalled =>
        /\ Len(genResult) = genN
        /\ DOMAIN genResult = 1..genN
        /\ \A i \in 1..genN : genResult[i] \in 1..6

\* A call with the largest count that returned a 6 first and a 1 last.
C1_Witness ==
    /\ genCalled
    /\ genN = MaxDice
    /\ Len(genResult) = MaxDice
    /\ genResult[1] = 6
    /\ genResult[MaxDice] = 1

\* C7: every call of generateDiceNumbers with the same N returns a sequence of
\* length N, whatever Math.random() returns; and for N >= 1 the call that was
\* made has a sibling, another execution with the same N, whose values differ.
C7_SameLengthOtherValues ==
    genCalled =>
        /\ Len(genResult) = genN
        /\ \A r \in GenerateOutcomes(Num(genN)) : Len(r) = Len(genResult)
        /\ genN >= 1 => \E r \in GenerateOutcomes(Num(genN)) : r # genResult

\* A call with N >= 1 and another execution with the same N that returns
\* the same length and other values.
C7_Witness ==
    /\ genCalled
    /\ genN >= 1
    /\ \E r \in GenerateOutcomes(Num(genN)) :
          Len(r) = Len(genResult) /\ r # genResult

\* The samples that generateDiceNumber maps to face k.
Preimage(k) == {u \in RandomSamples : generateDiceNumber(u) = k}

\* C8: a draw maps the sample u in [0,1) to floor(6u)+1: the result is in
\* 1..6, it is face k exactly when (k-1)/6 <= u < k/6, every face is produced,
\* and the six faces have preimages of the same size (on a grid that 6 does
\* not divide, sizes that differ by at most the one grid point).
C8_DrawIntervals ==
    /\ genCalled =>
          \A i \in 1..Len(genResult) :
              /\ genResult[i] \in 1..6
              /\ \A k \in 1..6 :
                    (genResult[i] = k) <=>
                        /\ (k - 1) * RandomResolution <= 6 * genSamples[i]
                        /\ 6 * genSamples[i] < k * RandomResolution
    /\ \A k \in 1..6 :
          /\ Preimage(k) # {}
          /\ Cardinality(Preimage(k)) \in
                {RandomResolution \div 6, (RandomResolution + 5) \div 6}

\* A call that drew the largest sample, which is face 6, and then the
\* sample 1/6, the lower end of the interval of face 2.
C8_Witness ==
    /\ genCalled
    /\ genN = 2
    /\ genSamples[1] = RandomResolution - 1
    /\ genResult[1] = 6
    /\ 6 * genSamples[2] = RandomResolution
    /\ genResult[2] = 2

----------------------------------------------------------------------------
(* Properties of the page (Spec) *)

\* C2: from any reachable state a reset leads to a state whose display is
\* empty and whose input field is empty.
C2_ResetClears ==
    lastEvent = "reset" => (containerHTML = <<>> /\ inputValue = <<>>)

\* A reset of a page that had rolled dice before.
C2_Witness ==
    /\ lastEvent = "reset"
    /\ lastRoll # <<>>
    /\ containerHTML = <<>>
    /\ inputValue = <<>>

\* C3: displayDiceNumbers(r) replaces the display: after it the display holds
\* exactly one block per element of r, in the order of r, and nothing else;
\* for an empty r the display is empty.
C3_DisplayReplaced ==
    lastEvent = "roll" =>
        /\ Len(containerHTML) = Len(lastRoll)
        /\ \A i \in 1..Len(lastRoll) :
              /\ containerHTML[i].class = "dice-face"
              /\ containerHTML[i].text = NumberToString(lastRoll[i])
        /\ lastRoll = <<>> => containerHTML = <<>>

\* A second roll in a row of two dice: the display holds the two blocks of
\* this roll, in its order.
C3_Witness ==
    /\ lastEvent = "roll"
    /\ repeated
    /\ lastRoll = <<6, 1>>
    /\ Len(containerHTML) = 2
    /\ containerHTML[1].text = <<"6">>
    /\ containerHTML[2].text = <<"1">>

\* C4: each rendered die shows the 3x3 dot pattern of its face value from
\* the face-pattern table: face 1 sets exactly the cell (1,1), face 6 exactly
\* the cells (0,0),(1,0),(2,0),(0,2),(1,2),(2,2).
C4_DotPatternRendered ==
    \A i \in 1..Len(containerHTML) :
        containerHTML[i].cells = FacePattern[DigitsValue(containerHTML[i].text)]

\* C5: the display is determined by the command that ran last: empty after a
\* reset, exactly the blocks of the last roll's result after a roll.
C5_LastWriteWins ==
    /\ lastCmd = "reset" => containerHTML = <<>>
    /\ lastCmd = "roll" =>
          containerHTML = [i \in 1..Len(lastRoll) |-> DiceFace(lastRoll[i])]

\* The input was edited after a roll of two dice: the display still holds
\* the roll.
C5_Witness ==
    /\ lastCmd = "roll"
    /\ lastEvent = "input"
    /\ inputValue = <<>>
    /\ Len(lastRoll) = 2
    /\ Len(containerHTML) = 2

\* C6 as stated: the same command twice in succession leaves the same
\* display and input field as once, for roll and for reset.
C6_BothIdempotent ==
    [][(lastEvent \in {"roll", "reset"} /\ lastEvent' = lastEvent) =>
          (containerHTML' = containerHTML /\ inputValue' = inputValue)]_vars

\* C6 as amended: a second reset in succession leaves the display and the
\* input field as the first left them; a second roll in succession leaves the
\* input field and the number of dice displayed as the first left them (the
\* face values are drawn anew).
C6_Idempotence ==
    [][/\ (lastEvent = "reset" /\ lastEvent' = "reset") =>
            (containerHTML' = containerHTML /\ inputValue' = inputValue)
       /\ (lastEvent = "roll" /\ lastEvent' = "roll") =>
            (Len(containerHTML') = Len(containerHTML) /\ inputValue' = inputValue)]_vars

\* A second roll in succession of as many dice as there can be.
C6_Witness ==
    /\ repeated
    /\ lastEvent = "roll"
    /\ Len(containerHTML) = MaxDice

\* The input is a negative number.
IsNegativeCount(s) ==
    LET x == StringToNumber(s) IN ~x.nan /\ x.neg /\ (x.int > 0 \/ x.frac)

\* The input is not a number.
IsNonNumeric(s) == StringToNumber(s).nan

\* C9: a roll with a negative count is rejected with a validation error and
\* a roll with non-numeric input is reported as a user error, instead of
\* silently producing a result.
C9_InvalidCountRejected ==
    (lastEvent = "roll" /\ (IsNegativeCount(inputValue) \/ IsNonNumeric(inputValue))) =>
        rollError # "none"

----------------------------------------------------------------------------
(* Properties of decorator composition (SpecDecorate) *)

\* The console output of a stack: each factory top to bottom, then each
\* decorator bottom to top.
ExpectedLog(stack) ==
    [k \in 1..(2 * Len(stack)) |->
        IF k <= Len(stack) THEN FactoryEvaluated(stack[k])
        ELSE DecoratorCalled(stack[2 * Len(stack) + 1 - k])]

\* C10: the factories stacked on a method are evaluated top to bottom and
\* the decorators are then called bottom to top: the console output is at all
\* times a prefix of that order, it is all of it when __decorate has
\* returned, and __decorate visits the indices from the last down to 0.
C10_DecoratorOrder ==
    /\ Len(decLog) <= 2 * Len(decStack)
    /\ decLog = SubSeq(ExpectedLog(decStack), 1, Len(decLog))
    /\ decPc = "done" => decLog = ExpectedLog(decStack)
    /\ decPc = "decorate" => decI = 2 * Len(decStack) - Len(decLog) - 1

\* @first() @second() method() {} has been defined.
C10_Witness ==
    /\ decPc = "done"
    /\ decStack = <<"first", "second">>
    /\ decLog = << <<"first", "factory evaluated">>, <<"second", "factory evaluated">>,
                   <<"second", "decorator called">>, <<"first", "decorator called">> >>

----------------------------------------------------------------------------
(* Properties of the base64 checks (SpecBase64) *)

IsBase64Char(c) == c \in UpperChars \cup LowerChars \cup DigitCharSet \cup {"+", "/"}

\* s is zero or more groups of 4 characters of the alphabet, the last of
\* which may instead be 2 such characters and "==" or 3 such characters and "=".
IsGroupedBase64(s) ==
    LET n == Len(s) IN
    /\ n % 4 = 0
    /\ \A i \in 1..n : i <= n - 4 => IsBase64Char(s[i])
    /\ n > 0 =>
          /\ IsBase64Char(s[n - 3])
          /\ IsBase64Char(s[n - 2])
          /\ \/ IsBase64Char(s[n - 1]) /\ IsBase64Char(s[n])
             \/ IsBase64Char(s[n - 1]) /\ s[n] = "="
             \/ s[n - 1] = "=" /\ s[n] = "="

C12_Result3False ==
    (b64Call = "isValidBase64" /\ b64Input = Result3Input) => (b64Result = FALSE)

\* C13: isBase64 returns true for 'MIQKuhftkDwxfZU7pve/OoaXS7wO4R...'.
C13_Result1True ==
    (b64Call = "isBase64" /\ b64Input = Result1Input) => (b64Result = TRUE)

----------------------------------------------------------------------------
(* Properties of the fetch functions (SpecFetch) *)

\* The responses of all the URLs, in the order of urls.
ResponsesInOrder == [i \in 1..Len(fUrls) |-> Response(fUrls[i])]

\* C14: sequentialFetch issues its requests one after another: the fetches
\* are started in the order of urls, each only after every earlier one has
\* completed, at most one is in flight, and the responses returned are in the
\* order of urls.
C14_Sequential ==
    fFn = "sequentialFetch" =>
        /\ Cardinality({i \in 1..Len(fUrls) : fReq[i] = "pending"}) <= 1
        /\ fStarts = [k \in 1..Len(fStarts) |-> k]
        /\ fSettles = [k \in 1..Len(fSettles) |-> k]
        /\ Len(fSettles) \in {Len(fStarts) - 1, Len(fStarts)}
        /\ \A i \in 1..Len(fUrls) :
              fReq[i] # "unstarted" => \A j \in 1..(i - 1) : fReq[j] = "fulfilled"
        /\ fOutcome.state = "resolved" => fOutcome.value = ResponsesInOrder

\* sequentialFetch has returned the responses of as many URLs as there can
\* be, the first two of them different.
C14_Witness ==
    /\ fFn = "sequentialFetch"
    /\ Len(fUrls) = MaxUrls
    /\ fUrls[1] # fUrls[2]
    /\ fOutcome.state = "resolved"
    /\ Len(fOutcome.value) = MaxUrls

\* C15: parallelFetch has started the fetch of every URL, in the order of
\* urls, before it waits and before any of them completes; and in whatever
\* order they complete, the array it resolves with holds the responses in
\* the order of urls.
C15_Parallel ==
    fFn = "parallelFetch" =>
        /\ (fPc # "call" \/ fSettles # <<>>) =>
              /\ fStarts = [k \in 1..Len(fUrls) |-> k]
              /\ \A i \in 1..Len(fUrls) : fReq[i] # "unstarted"
        /\ fOutcome.state = "resolved" => fOutcome.value = ResponsesInOrder

\* parallelFetch has resolved although the second fetch completed first.
C15_Witness ==
    /\ fFn = "parallelFetch"
    /\ fUrls = <<"/a", "/b">>
    /\ fSettles = <<2, 1>>
    /\ fOutcome.state = "resolved"
    /\ fOutcome.value = <<Response("/a"), Response("/b")>>

\* C16: parallelFetchWithSettled never rejects, whichever fetches fail; it
\* resolves with one entry per URL, entry i carrying urls[i], with a non-null
\* value and a null reason exactly when fetch i fulfilled and a null value
\* exactly when it rejected.
C16_Settled ==
    fFn = "parallelFetchWithSettled" =>
        /\ fOutcome.state # "rejected"
        /\ fPc = "done" <=> fOutcome.state = "resolved"
        /\ fOutcome.state = "resolved" =>
              /\ Len(fOutcome.value) = Len(fUrls)
              /\ \A i \in 1..Len(fUrls) :
                    LET entry == fOutcome.value[i] IN
                    /\ entry.url = fUrls[i]
                    /\ (entry.value # JsNull /\ entry.reason = JsNull)
                          <=> fReq[i] = "fulfilled"
                    /\ entry.value = JsNull <=> fReq[i] = "rejected"

\* parallelFetchWithSettled has resolved after its first fetch failed and
\* its second succeeded.
C16_Witness ==
    /\ fFn = "parallelFetchWithSettled"
    /\ Len(fUrls) >= 2
    /\ fReq[1] = "rejected"
    /\ fReq[2] = "fulfilled"
    /\ fOutcome.state = "resolved"
    /\ fOutcome.value[1].value = JsNull
    /\ fOutcome.value[2].value = Response(fUrls[2])

----------------------------------------------------------------------------
(* Properties of the validated method (SpecValidate) *)

\* The positions (1-based) of the arguments that are null or undefined.
NullishPositions(args) == {k \in 1..Len(args) : args[k] = JsNull \/ args[k] = JsUndefined}

\* The least element of a non-empty set of numbers.
Least(S) == CHOOSE k \in S : \A j \in S : k <= j

\* C17: a call of a method wrapped by @validate throws and does not invoke
\* the original method when an argument is null or undefined, the message
\* naming the lowest index of such an argument; otherwise it invokes the
\* original exactly once and returns its result.
C17_Validate ==
    vPc = "done" =>
        IF NullishPositions(vArgs) # {}
        THEN /\ vThrown = <<"Argument ">>
                    \o NumberToString(Least(NullishPositions(vArgs)) - 1)
                    \o <<" cannot be null or undefined">>
             /\ vOrigCalls = 0
             /\ vReturn = JsEmpty
        ELSE /\ vThrown = <<>>
             /\ vOrigCalls = 1
             /\ vReturn = [kind |-> "object",
                           name |-> IF Len(vArgs) >= 1 THEN vArgs[1] ELSE JsUndefined,
                           email |-> IF Len(vArgs) >= 2 THEN vArgs[2] ELSE JsUndefined]

\* The call createUser(0, null, undefined) threw for argument 1, the falsy
\* argument 0 having passed.
C17_Witness ==
    /\ vPc = "done"
    /\ vArgs = <<JsNumber(0), JsNull, JsUndefined>>
    /\ vThrown = <<"Argument ", "1", " cannot be null or undefined">>
    /\ vOrigCalls = 0

----------------------------------------------------------------------------
(* Properties of the memoized method (SpecMemoize) *)

\* C18: over any sequence of calls the original method runs at most once per
\* serialisation of the arguments; a call whose serialisation is in the cache
\* returns the stored value without running the original, whichever instance
\* it is made on, and no stored value is ever replaced.
C18_Memoize ==
    /\ [](\A k \in DOMAIN mRuns : mRuns[k] <= 1)
    /\ [][mCalls' = mCalls + 1 =>
            /\ \A k \in DOMAIN mCache : k \in DOMAIN mCache' /\ mCache'[k] = mCache[k]
            /\ mLast'.key \in DOMAIN mCache =>
                  /\ mLast'.hit
                  /\ mLast'.value = mCache[mLast'.key]
                  /\ mRuns' = mRuns
                  /\ mCache' = mCache]_vars

\* fibonacci(3) called on m2 was answered from the cache with the value that
\* a call on m1 had stored; the original ran once for it.
C18_Witness ==
    /\ mLast.hit
    /\ mLast.inst = "m2"
    /\ mLast.key = <<"[", "3", "]">>
    /\ mLast.value = 2
    /\ mLast.key \in DOMAIN mOwner
    /\ mOwner[mLast.key] = "m1"
    /\ mRuns[mLast.key] = 1

----------------------------------------------------------------------------
(* Further properties of the page (Spec) *)

\* C19: a roll whose input is negative or non-numeric raises no error and
\* renders an empty display, the count being coerced to the length 0; the
\* input field is left as it was.
C19_InvalidCountRollsNothing ==
    /\ []((lastEvent = "roll" /\ (IsNegativeCount(inputValue) \/ IsNonNumeric(inputValue))) =>
            (rollError = "none" /\ lastRoll = <<>> /\ containerHTML = <<>>))
    /\ [][(lastEvent' = "roll" /\ (IsNegativeCount(inputValue) \/ IsNonNumeric(inputValue))) =>
            inputValue' = inputValue]_vars

\* "-2" was typed and rolled: nothing is displayed and the input still
\* holds "-2".
C19_Witness ==
    /\ lastEvent = "roll"
    /\ prevEvent = "input"
    /\ inputValue = <<"-", "2">>
    /\ containerHTML = <<>>
    /\ rollError = "none"

\* C20: a roll renders as many dice as the count the input holds when it
\* runs and leaves the input as it is: directly after a reset it reads the
\* cleared input and renders nothing, with a count N in the input it renders
\* N dice, and a roll following a roll renders as many dice as that one.
C20_RollReadsInput ==
    [][/\ lastEvent' = "roll" =>
            /\ inputValue' = inputValue
            /\ \A N \in 0..MaxDice :
                  inputValue = NumberToString(N) => Len(containerHTML') = N
       /\ (lastEvent = "reset" /\ lastEvent' = "roll") => containerHTML' = <<>>
       /\ (lastEvent = "roll" /\ lastEvent' = "roll") =>
            Len(containerHTML') = Len(containerHTML)]_vars

\* A roll directly after a reset, the input being empty: nothing is
\* displayed.
C20_Witness ==
    /\ prevEvent = "reset"
    /\ lastEvent = "roll"
    /\ inputValue = <<>>
    /\ containerHTML = <<>>
    /\ lastRoll = <<>>

====
